---- MODULE Spec2Model ----
(***************************************************************************)
(* State-machine model of SerialPlotter (serial_plotter.py): the Qt        *)
(* callbacks of the main window as atomic actions (the program is          *)
(* single-threaded: one callback runs to completion before the next), the  *)
(* serial port's receive buffer and the CSV file as environment state.     *)
(***************************************************************************)
EXTENDS Integers, Sequences, FiniteSets, TLC

\* ------------------------------------------------------------------ bounds
\* most lines waiting in the port's receive buffer at one tick
MaxPending == 2
\* lines read from the port over the whole run
MaxSent == 2
\* lines read from the port over a run of SpecFixedCap
MaxSentFixedCap == 3
\* lines read from the port over a run of SpecLines
MaxSentLines == 2
\* operator actions on the channel list (delete, rename, toggle) per run
MaxUiOps == 1

\* ------------------------------------------------------------ input domains
\* values typed into the "Max data points" field (the validator takes 1..10000)
TypedCaps == {1, 2}
\* positions in the checkbox list of the channels the operator clicks,
\* renames or deletes
OperatedChannels == {1}

\* --------------------------------------------------------- program constants
\* int(self.settings.value("max_points", 200))
DefaultMaxPoints == 200
\* retry_count = 3
retry_count == 3
\* for i in range(1, 6): five default checkboxes
DefaultChannels == 5

\* ------------------------------------------------------------- text lines
\* A received line is a sequence of characters as readline() returns it,
\* newline included. "0xFF" stands for a byte that is not valid UTF-8.
Digits == {"0", "1", "2", "3", "4", "5", "6", "7", "8", "9"}
Whitespace == {" ", "\n", "\r"}

DigitVal(c) ==
    CASE c = "0" -> 0 [] c = "1" -> 1 [] c = "2" -> 2 [] c = "3" -> 3
      [] c = "4" -> 4 [] c = "5" -> 5 [] c = "6" -> 6 [] c = "7" -> 7
      [] c = "8" -> 8 [] c = "9" -> 9

\* bytes.decode(): raises UnicodeDecodeError on an invalid byte
Decodable(line) == \A i \in 1..Len(line) : line[i] # "0xFF"

RECURSIVE LStrip(_)
LStrip(s) == IF s # <<>> /\ Head(s) \in Whitespace THEN LStrip(Tail(s)) ELSE s

RECURSIVE RStrip(_)
RStrip(s) ==
    IF s # <<>> /\ s[Len(s)] \in Whitespace
    THEN RStrip(SubSeq(s, 1, Len(s) - 1))
    ELSE s

\* str.strip()
Strip(s) == RStrip(LStrip(s))

\* str.split(','): always at least one field
RECURSIVE SplitFrom(_, _, _)
SplitFrom(s, i, cur) ==
    IF i > Len(s) THEN <<cur>>
    ELSE IF s[i] = "," THEN <<cur>> \o SplitFrom(s, i + 1, <<>>)
    ELSE SplitFrom(s, i + 1, Append(cur, s[i]))

Split(s) == SplitFrom(s, 1, <<>>)

RECURSIVE Decimal(_)
Decimal(ds) ==
    IF ds = <<>> THEN 0
    ELSE 10 * Decimal(SubSeq(ds, 1, Len(ds) - 1)) + DigitVal(ds[Len(ds)])

AllDigits(t) == t # <<>> /\ \A i \in 1..Len(t) : t[i] \in Digits

\* A Python float: a finite number n, or one of the non-finite values
\* nan, inf (n = 1) and -inf (n = -1).
Finite(n) == [cls |-> "finite", n |-> n]
NaN == [cls |-> "nan", n |-> 0]
Inf == [cls |-> "inf", n |-> 1]
Negated(v) == [v EXCEPT !.n = 0 - @]

\* float() reads its letters without regard to case
Lower(c) ==
    CASE c = "N" -> "n" [] c = "A" -> "a" [] c = "I" -> "i"
      [] c = "F" -> "f" [] c = "T" -> "t" [] c = "Y" -> "y"
      [] OTHER -> c

LowerAll(t) == [i \in 1..Len(t) |-> Lower(t[i])]

\* the part of float() after the sign: decimal digits, "nan", "inf" or
\* "infinity"
Unsigned(t) ==
    IF AllDigits(t) THEN [ok |-> TRUE, v |-> Finite(Decimal(t))]
    ELSE IF LowerAll(t) = <<"n", "a", "n">> THEN [ok |-> TRUE, v |-> NaN]
    ELSE IF LowerAll(t) \in {<<"i", "n", "f">>,
                             <<"i", "n", "f", "i", "n", "i", "t", "y">>}
         THEN [ok |-> TRUE, v |-> Inf]
    ELSE [ok |-> FALSE, v |-> Finite(0)]

\* float(x) on the tokens the modelled device sends: optional surrounding
\* whitespace, optional sign, then decimal digits or a non-finite token.
\* Anything else is a ValueError.
Float(x) ==
    LET t == Strip(x) IN
    IF t # <<>> /\ t[1] = "-"
    THEN LET u == Unsigned(Tail(t)) IN [ok |-> u.ok, v |-> Negated(u.v)]
    ELSE IF t # <<>> /\ t[1] = "+" THEN Unsigned(Tail(t))
    ELSE Unsigned(t)

\* mutant of ParseLine: the fields that do not parse are skipped instead of
\* failing the line
RECURSIVE FloatsOf(_)
FloatsOf(fs) ==
    IF fs = <<>> THEN <<>>
    ELSE (IF Float(Head(fs)).ok THEN <<Float(Head(fs)).v>> ELSE <<>>)
         \o FloatsOf(Tail(fs))

ParseLine_skipping(line) ==
    LET vs == FloatsOf(Split(line)) IN
    [ok |-> vs # <<>>, values |-> vs]

\* values = [float(x) for x in line.split(',')]: ValueError if any field fails
ParseLine(line) ==
    LET fs == Split(line) IN
    IF \A i \in 1..Len(fs) : Float(fs[i]).ok
    THEN [ok |-> TRUE, values |-> [i \in 1..Len(fs) |-> Float(fs[i]).v]]
    ELSE [ok |-> FALSE, values |-> <<>>]

\* ------------------------------------------------------------------- state
VARIABLES
    serial,            \* self.serial: "None" or "open" (an open serial.Serial)
    is_running,        \* self.is_running
    run_stop_enabled,  \* self.run_stop_button.isEnabled()
    data,              \* self.data: the history buffer, oldest first
    lines,             \* self.lines: per plot series the x and y last drawn
    checkboxes,        \* self.checkboxes: per channel its text and check state
    settings_names,    \* self.settings "checkbox_names" (<<>> when unset)
    max_points,        \* self.max_points
    total_data_count,  \* self.total_data_count
    csv_file,          \* self.csv_file: "None" or "open"
    csv_writer,        \* self.csv_writer: "None" or "writer"
    error_label,       \* self.error_label.text(), by message kind
    csv_rows,          \* rows of the CSV file on disk
    open_files,        \* CSV file handles opened and not closed
    closed,            \* the main window was closed (closeEvent ran)
    accepted,          \* history: samples accepted since the last clear
    last,              \* history: the callback that ran last and what it met
    sent,              \* lines read from the port so far
    ui_ops             \* channel-list operations so far

progvars == <<serial, is_running, run_stop_enabled, data, lines, checkboxes,
              settings_names, max_points, total_data_count, csv_file,
              csv_writer, error_label, csv_rows, open_files>>

vars == <<serial, is_running, run_stop_enabled, data, lines, checkboxes,
          settings_names, max_points, total_data_count, csv_file,
          csv_writer, error_label, csv_rows, open_files,
          closed, accepted, last, sent, ui_ops>>

\* the object's fields (and the two OS resources it drives) as one record,
\* so that methods calling methods compose
Self ==
    [serial |-> serial, is_running |-> is_running,
     run_stop_enabled |-> run_stop_enabled, data |-> data, lines |-> lines,
     checkboxes |-> checkboxes, settings_names |-> settings_names,
     max_points |-> max_points, total_data_count |-> total_data_count,
     csv_file |-> csv_file, csv_writer |-> csv_writer,
     error_label |-> error_label,
     csv_rows |-> csv_rows, open_files |-> open_files, accepted |-> accepted]

Becomes(new) ==
    \E s \in {new} :
    /\ serial' = s.serial
    /\ is_running' = s.is_running
    /\ run_stop_enabled' = s.run_stop_enabled
    /\ data' = s.data
    /\ lines' = s.lines
    /\ checkboxes' = s.checkboxes
    /\ settings_names' = s.settings_names
    /\ max_points' = s.max_points
    /\ total_data_count' = s.total_data_count
    /\ csv_file' = s.csv_file
    /\ csv_writer' = s.csv_writer
    /\ error_label' = s.error_label
    /\ csv_rows' = s.csv_rows
    /\ open_files' = s.open_files
    /\ accepted' = s.accepted

\* --------------------------------------------------------------- channels
DataNames == <<"Data 1", "Data 2", "Data 3", "Data 4", "Data 5", "Data 6",
               "Data 7", "Data 8", "Data 9">>
\* f"Data {n}"
DataName(n) == DataNames[n]

\* self.plot_widget.plot(...): a series with nothing drawn; line.clear()
EmptyLine == [x |-> <<>>, y |-> <<>>]

\* add_checkbox: a checked checkbox appended to self.checkboxes
\* (checkbox_widgets is kept parallel to checkboxes and is not modelled apart)
add_checkbox(s, name) ==
    [s EXCEPT !.checkboxes = Append(@, [text |-> name, checked |-> TRUE])]

Max(a, b) == IF a >= b THEN a ELSE b

\* list(range(a, b))
Range(a, b) == [i \in 1..Max(0, b - a) |-> a + i - 1]

\* mutant of Column: a sample too narrow for the channel contributes a 0
Column_padding(d, i) ==
    [k \in 1..Len(d) |-> IF i <= Len(d[k]) THEN d[k][i] ELSE Finite(0)]

\* [d[i] for d in self.data if i < len(d)], i counted from 1 here
RECURSIVE Column(_, _)
Column(d, i) ==
    IF d = <<>> THEN <<>>
    ELSE (IF i <= Len(Head(d)) THEN <<Head(d)[i]>> ELSE <<>>) \o Column(Tail(d), i)

\* update_plot_data: redraw every series that has a checkbox
update_plot_data(s) ==
    [s EXCEPT !.lines =
        [i \in 1..Len(s.lines) |->
            IF i <= Len(s.checkboxes)
            THEN IF s.checkboxes[i].checked
                 THEN LET y_data == Column(s.data, i)
                          start_x == Max(0, s.total_data_count - Len(y_data))
                      IN [x |-> Range(start_x, s.total_data_count), y |-> y_data]
                 ELSE EmptyLine
            ELSE s.lines[i]]]

\* save_checkbox_names
save_checkbox_names(s) ==
    [s EXCEPT !.settings_names =
        [i \in 1..Len(s.checkboxes) |-> s.checkboxes[i].text]]

\* mutant of clear_plot: the counter is not reset
clear_plot_keeps_count(s) ==
    [s EXCEPT !.data = <<>>,
              !.lines = <<>>,
              !.accepted = <<>>,
              !.checkboxes = [i \in 1..Len(s.settings_names) |->
                                [text |-> s.settings_names[i], checked |-> TRUE]]]

\* mutant of clear_plot: the buffer is not emptied
clear_plot_keeps_data(s) ==
    [s EXCEPT !.lines = <<>>,
              !.total_data_count = 0,
              !.accepted = <<>>,
              !.checkboxes = [i \in 1..Len(s.settings_names) |->
                                [text |-> s.settings_names[i], checked |-> TRUE]]]

\* clear_plot: empties buffer, series and counter, rebuilds the checkboxes
\* from the names saved in the settings
clear_plot(s) ==
    [s EXCEPT !.data = <<>>,
              !.lines = <<>>,
              !.total_data_count = 0,
              !.accepted = <<>>,
              !.checkboxes = [i \in 1..Len(s.settings_names) |->
                                [text |-> s.settings_names[i], checked |-> TRUE]]]

\* load_settings, the part on checkboxes and max_points
RECURSIVE AddDefaults(_, _)
AddDefaults(s, i) ==
    IF i > DefaultChannels THEN s
    ELSE AddDefaults(add_checkbox(s, DataName(i)), i + 1)

load_settings(s, saved) ==
    LET n == IF Len(saved.names) <= Len(saved.states)
             THEN Len(saved.names) ELSE Len(saved.states)
        s1 == [s EXCEPT !.checkboxes = @ \o
                  [i \in 1..n |-> [text |-> saved.names[i],
                                   checked |-> saved.states[i]]]]
        s2 == IF saved.names = <<>> THEN AddDefaults(s1, 1) ELSE s1
    IN [s2 EXCEPT !.max_points = saved.max_points,
                  !.settings_names = saved.names]

\* ------------------------------------------------------------- connection
\* open_csv_file, when open() succeeds
open_csv_file(s) ==
    [s EXCEPT !.csv_file = "open",
              !.csv_writer = "writer",
              !.open_files = @ + 1]

\* mutant of close_csv_file: the fields are reset, the file is not closed
close_csv_file_leaking(s) ==
    IF s.csv_file # "None"
    THEN [s EXCEPT !.csv_file = "None",
                   !.csv_writer = "None"]
    ELSE s

\* close_csv_file
close_csv_file(s) ==
    IF s.csv_file # "None"
    THEN [s EXCEPT !.csv_file = "None",
                   !.csv_writer = "None",
                   !.open_files = @ - 1]
    ELSE s

\* what serial.Serial(port, baud, timeout=1) does on one attempt
OpenOutcomes == {"ok", "SerialException", "Exception"}

\* connect_serial: the retry loop from iteration `attempt` on. outs[k] is the
\* outcome of the k-th serial.Serial call, csv_ok whether open() of the CSV
\* file succeeds. Returns the object and the number of port-open calls made.
RECURSIVE connect_loop(_, _, _, _)
connect_loop(s, attempt, outs, csv_ok) ==
    IF attempt >= retry_count THEN [self |-> s, attempts |-> attempt]
    ELSE IF outs[attempt + 1] = "ok"
    THEN LET s1 == clear_plot([s EXCEPT !.serial = "open"])
             s2 == [s1 EXCEPT !.error_label = "",
                              !.run_stop_enabled = TRUE,
                              !.is_running = TRUE]
         IN IF csv_ok
            THEN [self |-> open_csv_file(s2), attempts |-> attempt + 1]
            ELSE [self |-> [s2 EXCEPT !.error_label = "Unexpected error"],
                  attempts |-> attempt + 1]
    ELSE IF outs[attempt + 1] = "SerialException"
    THEN IF attempt < retry_count - 1
         THEN connect_loop([s EXCEPT !.error_label = "Retrying"],
                           attempt + 1, outs, csv_ok)
         ELSE [self |-> [s EXCEPT !.error_label = "Error: port"],
               attempts |-> attempt + 1]
    ELSE [self |-> [s EXCEPT !.error_label = "Unexpected error"],
          attempts |-> attempt + 1]

\* mutant of connect_serial: the run/stop button is enabled before the port
\* is opened
connect_serial_enables_first(s, outs, csv_ok) ==
    connect_loop([s EXCEPT !.run_stop_enabled = TRUE], 0, outs, csv_ok)

connect_serial(s, outs, csv_ok) == connect_loop(s, 0, outs, csv_ok)

\* mutant of disconnect_serial: the cleanup sits in the try block, not in
\* finally, and is skipped when close() raises
disconnect_serial_no_finally(s, close_raises) ==
    IF s.serial # "None"
    THEN IF close_raises
         THEN [s EXCEPT !.error_label = "Error closing port"]
         ELSE close_csv_file([s EXCEPT !.serial = "None",
                                       !.run_stop_enabled = FALSE,
                                       !.is_running = FALSE])
    ELSE s

\* mutant of disconnect_serial: it also clears the plot
disconnect_serial_clearing(s, close_raises) ==
    IF s.serial # "None"
    THEN LET s1 == IF close_raises
                   THEN [s EXCEPT !.error_label = "Error closing port"]
                   ELSE s
         IN clear_plot(close_csv_file([s1 EXCEPT !.serial = "None",
                                                 !.run_stop_enabled = FALSE,
                                                 !.is_running = FALSE]))
    ELSE s

\* disconnect_serial; close_raises: self.serial.close() raises
disconnect_serial(s, close_raises) ==
    IF s.serial # "None"
    THEN LET s1 == IF close_raises
                   THEN [s EXCEPT !.error_label = "Error closing port"]
                   ELSE s
         IN close_csv_file([s1 EXCEPT !.serial = "None",
                                      !.run_stop_enabled = FALSE,
                                      !.is_running = FALSE])
    ELSE s

\* ------------------------------------------------------------------- tick
\* self.data[-self.max_points:]
Trim(d, n) == IF Len(d) <= n THEN d ELSE SubSeq(d, Len(d) - n + 1, Len(d))

\* What the port does during one tick: it works, or it raises at the k-th
\* "in_waiting / readline" of the loop (the device was unplugged). The CSV
\* file is taken to accept every write.
NoFault == [kind |-> "none", at |-> 0]
Faults(pending) ==
    {NoFault} \cup {[kind |-> "read", at |-> k] : k \in 1..(Len(pending) + 1)}

\* the while loop of update_plot from its k-th iteration on; st carries the
\* object, the lines waiting in the port (in_waiting), the locals new_data
\* and values, `raised` the exception that left the loop for the outer
\* handler ("" when none did), and `read`, the lines readline returned
RECURSIVE read_loop(_, _, _)
read_loop(st, k, fault) ==
    IF fault.kind = "read" /\ fault.at = k THEN [st EXCEPT !.raised = "read"]
    ELSE IF st.in_waiting = <<>> THEN st
    ELSE LET raw == Head(st.in_waiting)
             s1 == [st EXCEPT !.in_waiting = Tail(@),
                              !.read = Append(@, raw)]
         IN IF ~Decodable(raw) THEN [s1 EXCEPT !.raised = "decode"]
            ELSE LET p == ParseLine(Strip(raw)) IN
                 IF ~p.ok THEN read_loop(s1, k + 1, fault)
                 ELSE LET s2 == [s1 EXCEPT
                                   !.self.data = Append(@, p.values),
                                   !.self.accepted = Append(@, p.values),
                                   !.self.total_data_count = @ + 1,
                                   !.new_data = TRUE,
                                   !.values = p.values]
                      IN IF s2.self.csv_writer = "None"
                         THEN read_loop(s2, k + 1, fault)
                         ELSE read_loop(
                                [s2 EXCEPT !.self.csv_rows = Append(@, p.values)],
                                k + 1, fault)

\* while len(self.lines) < len(values): add a series, and a checkbox if
\* there are fewer checkboxes than values
RECURSIVE ensure_lines(_, _)
ensure_lines(s, width) ==
    IF Len(s.lines) >= width THEN s
    ELSE LET s1 == [s EXCEPT !.lines = Append(@, EmptyLine)]
             s2 == IF Len(s1.checkboxes) < width
                   THEN add_checkbox(s1, DataName(Len(s1.lines)))
                   ELSE s1
         IN ensure_lines(s2, width)

\* mutant of update_plot: the guard forgets is_running
update_plot_while_paused(s, pending, fault) ==
    LET st0 == [self |-> s, in_waiting |-> pending, new_data |-> FALSE,
                values |-> <<>>, raised |-> "", read |-> <<>>]
    IN IF s.serial # "None"
       THEN LET st == read_loop(st0, 1, fault) IN
            IF st.raised # ""
            THEN [st EXCEPT !.self.error_label = "Error"]
            ELSE LET s1 == [st.self EXCEPT !.data = Trim(@, s.max_points)]
                 IN IF st.new_data /\ st.values # <<>>
                    THEN [st EXCEPT !.self =
                            update_plot_data(ensure_lines(s1, Len(st.values)))]
                    ELSE [st EXCEPT !.self = s1]
       ELSE st0

\* update_plot: one timer tick, with `pending` the lines waiting in the port.
\* Returns the loop's record with the object as the tick leaves it.
update_plot(s, pending, fault) ==
    LET st0 == [self |-> s, in_waiting |-> pending, new_data |-> FALSE,
                values |-> <<>>, raised |-> "", read |-> <<>>]
    IN IF s.serial # "None" /\ s.is_running
       THEN LET st == read_loop(st0, 1, fault) IN
            IF st.raised # ""
            THEN [st EXCEPT !.self.error_label = "Error"]
            ELSE LET s1 == [st.self EXCEPT !.data = Trim(@, s.max_points)]
                 IN IF st.new_data /\ st.values # <<>>
                    THEN [st EXCEPT !.self =
                            update_plot_data(ensure_lines(s1, Len(st.values)))]
                    ELSE [st EXCEPT !.self = s1]
       ELSE st0

\* -------------------------------------------------------- other callbacks
\* mutant of toggle_run_stop: the guard on the port is dropped
toggle_run_stop_unguarded(s) == [s EXCEPT !.is_running = ~@]

\* toggle_run_stop
toggle_run_stop(s) ==
    IF s.serial # "None" THEN [s EXCEPT !.is_running = ~@] ELSE s

\* update_max_points: n is int(self.max_points_edit.text()); the field's
\* QIntValidator(1, 10000) lets returnPressed through only for such a text
update_max_points(s, n) == [s EXCEPT !.max_points = n]

\* a click on the i-th checkbox: stateChanged is connected to update_plot_data
checkbox_clicked(s, i) ==
    update_plot_data([s EXCEPT !.checkboxes[i].checked = ~@])

\* delete_checkbox of the i-th checkbox
delete_checkbox(s, i) ==
    LET cbs == s.checkboxes
        s1 == [s EXCEPT !.checkboxes =
                 SubSeq(cbs, 1, i - 1) \o SubSeq(cbs, i + 1, Len(cbs))]
    IN save_checkbox_names(update_plot_data(s1))

\* rename_checkbox of the i-th checkbox to the text of its line edit
rename_checkbox(s, i, new_name) ==
    save_checkbox_names(update_plot_data([s EXCEPT !.checkboxes[i].text = new_name]))

\* the settings store with no key set: every value() call returns its default
UnsetSettings == [names |-> <<>>, states |-> <<>>, max_points |-> DefaultMaxPoints]

\* restore_default: settings.clear(), load_settings(), clear_plot()
restore_default(s) ==
    LET s1 == clear_plot(load_settings(s, UnsetSettings))
    IN [s1 EXCEPT !.checkboxes = <<>>,
                  !.error_label = "Default settings restored"]

\* closeEvent: save_settings (which saves the checkbox names), disconnect_serial
closeEvent(s, close_raises) ==
    disconnect_serial(save_checkbox_names(s), close_raises)

\* ------------------------------------------------------------ environment
\* lines the device sends (as readline returns them)
SentLines ==
    { <<"1", "\n">>,
      <<"1", ",", "2", "\n">>,
      <<"1", ",", "x", "\n">>,
      <<"0xFF", "\n">> }

\* names the operator types when renaming a channel
TypedNames == {"Temp"}

\* what a previous run may have left in the settings store
SavedSettings ==
    {UnsetSettings} \cup
    {[names |-> <<"Temp", "Data 2">>, states |-> <<TRUE, FALSE>>,
      max_points |-> m] : m \in TypedCaps}

\* the fields as __init__ sets them before load_settings
Constructed ==
    [serial |-> "None", is_running |-> FALSE, run_stop_enabled |-> FALSE,
     data |-> <<>>, lines |-> <<>>, checkboxes |-> <<>>,
     settings_names |-> <<>>, max_points |-> DefaultMaxPoints,
     total_data_count |-> 0, csv_file |-> "None", csv_writer |-> "None",
     error_label |-> "", csv_rows |-> <<>>,
     open_files |-> 0, accepted |-> <<>>]

\* __init__: the constructed fields, then load_settings
Starts(saved) ==
    \E s \in {load_settings(Constructed, saved)} :
    /\ serial = s.serial
    /\ is_running = s.is_running
    /\ run_stop_enabled = s.run_stop_enabled
    /\ data = s.data
    /\ lines = s.lines
    /\ checkboxes = s.checkboxes
    /\ settings_names = s.settings_names
    /\ max_points = s.max_points
    /\ total_data_count = s.total_data_count
    /\ csv_file = s.csv_file
    /\ csv_writer = s.csv_writer
    /\ error_label = s.error_label
    /\ csv_rows = s.csv_rows
    /\ open_files = s.open_files
    /\ accepted = s.accepted

\* the record kept of the last callback
\* its name; the exception it met (""  when none); for a tick the lines
\* that were waiting and the lines it read; for a connect the outcomes of
\* the port-open calls it made; for clear, connect, disconnect and close the
\* buffer length and the CSV handle it found
Note(op) ==
    [op |-> op, raised |-> "", waiting |-> 0, read |-> <<>>, tried |-> <<>>,
     found |-> [data_len |-> 0, csv_file |-> "None"]]

Found == [data_len |-> Len(data), csv_file |-> csv_file]

Init ==
    /\ \E saved \in SavedSettings : Starts(saved)
    /\ closed = FALSE
    /\ last = Note("__init__")
    /\ sent = 0
    /\ ui_ops = 0

\* ---------------------------------------------------------------- actions
counters == <<sent, ui_ops>>

\* what the port's receive buffer may hold when a tick looks at it
Batches ==
    UNION {[1..n -> SentLines] : n \in 0..MaxPending}

\* timer.timeout -> update_plot, with the port's receive buffer drawn from
\* `batches`, the port's faults from `faults` and at most `budget` lines
\* read over the run
TickFrom(batches, faults, budget) ==
    /\ ~closed
    /\ \E pending \in batches : \E fault \in Faults(pending) \cap faults :
         /\ serial = "None" => pending = <<>>
         /\ (serial # "None" /\ is_running) => sent + Len(pending) <= budget
         /\ (serial = "None" \/ ~is_running) => fault = NoFault
         /\ \E r \in {update_plot(Self, pending, fault)} :
              /\ fault # NoFault => r.raised = fault.kind
              /\ Becomes(r.self)
              /\ sent' = sent + Len(r.read)
              /\ last' = [Note("update_plot") EXCEPT !.raised = r.raised,
                                                     !.waiting = Len(pending),
                                                     !.read = r.read]
    /\ UNCHANGED <<closed, ui_ops>>

TickWith(faults, budget) == TickFrom(Batches, faults, budget)

AnyFault == {NoFault} \cup {[kind |-> "read", at |-> k] : k \in 1..(MaxPending + 1)}

Tick == TickWith(AnyFault, MaxSent)

\* connect_button.clicked -> toggle_connection, no open port: connect_serial
Connect ==
    /\ ~closed /\ serial = "None"
    /\ \E outs \in [1..retry_count -> OpenOutcomes], csv_ok \in BOOLEAN :
         /\ \A k \in 2..retry_count :
              outs[k - 1] # "SerialException" => outs[k] = "ok"
         /\ (\A k \in 1..retry_count : outs[k] # "ok") => csv_ok
         /\ \E r \in {connect_serial(Self, outs, csv_ok)} :
            /\ Becomes(r.self)
            /\ last' = [Note("connect_serial") EXCEPT
                          !.found = Found,
                          !.tried = SubSeq(outs, 1, r.attempts),
                          !.raised = IF r.self.serial = "None" THEN "open"
                                     ELSE IF ~csv_ok THEN "csv" ELSE ""]
    /\ UNCHANGED <<closed, counters>>

\* connect_button.clicked -> toggle_connection, port open: disconnect_serial
Disconnect ==
    /\ ~closed /\ serial # "None"
    /\ \E close_raises \in BOOLEAN :
         /\ Becomes(disconnect_serial(Self, close_raises))
         /\ last' = [Note("disconnect_serial") EXCEPT
                       !.raised = IF close_raises THEN "close" ELSE "",
                       !.found = Found]
    /\ UNCHANGED <<closed, counters>>

\* clear_button.clicked -> clear_plot
Clear ==
    /\ ~closed
    /\ Becomes(clear_plot(Self))
    /\ last' = [Note("clear_plot") EXCEPT !.found = Found]
    /\ UNCHANGED <<closed, counters>>

\* run_stop_button.clicked -> toggle_run_stop (the button may be disabled,
\* the method is written to be safe anyway and is modelled in both cases)
ToggleRunStop ==
    /\ ~closed
    /\ Becomes(toggle_run_stop(Self))
    /\ last' = Note("toggle_run_stop")
    /\ UNCHANGED <<closed, counters>>

\* max_points_edit.returnPressed -> update_max_points
SetMaxPoints ==
    /\ ~closed
    /\ \E n \in TypedCaps : Becomes(update_max_points(Self, n))
    /\ last' = Note("update_max_points")
    /\ UNCHANGED <<closed, counters>>

\* the checkboxes the operator acts on
UiIndexes == {i \in 1..Len(checkboxes) : i \in OperatedChannels}

ClickCheckbox ==
    /\ ~closed /\ ui_ops < MaxUiOps
    /\ \E i \in UiIndexes : Becomes(checkbox_clicked(Self, i))
    /\ last' = Note("checkbox_clicked")
    /\ ui_ops' = ui_ops + 1
    /\ UNCHANGED <<closed, sent>>

DeleteCheckbox ==
    /\ ~closed /\ ui_ops < MaxUiOps
    /\ \E i \in UiIndexes : Becomes(delete_checkbox(Self, i))
    /\ last' = Note("delete_checkbox")
    /\ ui_ops' = ui_ops + 1
    /\ UNCHANGED <<closed, sent>>

RenameCheckbox ==
    /\ ~closed /\ ui_ops < MaxUiOps
    /\ \E i \in UiIndexes, nm \in TypedNames :
         Becomes(rename_checkbox(Self, i, nm))
    /\ last' = Note("rename_checkbox")
    /\ ui_ops' = ui_ops + 1
    /\ UNCHANGED <<closed, sent>>

\* restore_button.clicked -> restore_default
RestoreDefault ==
    /\ ~closed
    /\ Becomes(restore_default(Self))
    /\ last' = Note("restore_default")
    /\ UNCHANGED <<closed, counters>>

\* the window is closed: closeEvent, after which no callback runs
Close ==
    /\ ~closed
    /\ \E close_raises \in BOOLEAN :
         /\ serial = "None" => ~close_raises
         /\ Becomes(closeEvent(Self, close_raises))
         /\ last' = [Note("closeEvent") EXCEPT
                       !.raised = IF close_raises THEN "close" ELSE "",
                       !.found = Found]
    /\ closed' = TRUE
    /\ UNCHANGED counters

Next ==
    \/ Tick
    \/ Connect
    \/ Disconnect
    \/ Clear
    \/ ToggleRunStop
    \/ SetMaxPoints
    \/ ClickCheckbox
    \/ DeleteCheckbox
    \/ RenameCheckbox
    \/ RestoreDefault
    \/ Close

Spec == Init /\ [][Next]_vars

\* The same program with the "Max data points" field and the channel list
\* left alone and a port that never fails: what the program does with the
\* lines alone, over one more line than Spec reads.
TickSound == TickWith({NoFault}, MaxSentFixedCap)

NextFixedCap ==
    \/ TickSound
    \/ Connect
    \/ Disconnect
    \/ Clear
    \/ ToggleRunStop
    \/ Close

SpecFixedCap == Init /\ [][NextFixedCap]_vars

\* The same program fed with lines of every shape float() tells apart
\* (blank fields, padded fields, signs, non-finite tokens in either case), by
\* a port that never fails; the operator only connects, disconnects and
\* pauses.
ShapedLines ==
    { <<"1", "\n">>,
      <<" ", "1", " ", ",", " ", "2", "\r", "\n">>,
      <<"1", ",", "\n">>,
      <<"\n">>,
      <<"x", "\n">>,
      <<"n", "a", "n", "\n">>,
      <<"1", ",", "-", "I", "n", "f", "\n">>,
      <<"i", "n", "f", "i", "n", "i", "t", "y", "\n">> }

ShapedBatches == UNION {[1..n -> ShapedLines] : n \in 0..MaxPending}

TickShaped == TickFrom(ShapedBatches, {NoFault}, MaxSentLines)

NextLines ==
    \/ TickShaped
    \/ Connect
    \/ Disconnect
    \/ ToggleRunStop

SpecLines == Init /\ [][NextLines]_vars

\* ----------------------------------------------------------------- claims
\* What the lines of SentLines are expected to yield, written down by hand:
\* the samples a line contributes (one for a numeric line, none otherwise).
ExpectedOf(line) ==
    IF line = <<"1", "\n">> THEN << <<Finite(1)>> >>
    ELSE IF line = <<"1", ",", "2", "\n">> THEN << <<Finite(1), Finite(2)>> >>
    ELSE <<>>

RECURSIVE ExpectedSamples(_)
ExpectedSamples(ls) ==
    IF ls = <<>> THEN <<>> ELSE ExpectedOf(Head(ls)) \o ExpectedSamples(Tail(ls))

\* the last n elements of q (all of q when it is shorter)
LastN(q, n) == [i \in 1..(IF Len(q) < n THEN Len(q) ELSE n) |->
                  q[Len(q) - (IF Len(q) < n THEN Len(q) ELSE n) + i]]

Connected == serial # "None"
TickRan == last.op = "update_plot"

\* C1: with max_points never changed, after every tick the buffer holds at
\* most max_points samples, whatever the tick read.
C1_BufferWithinCap == TickRan => Len(data) <= max_points

\* C2: with max_points never changed, once more than max_points samples were
\* accepted since the last clear the buffer is exactly the last max_points of
\* them, oldest first.
C2_KeepsLastMaxPoints ==
    Len(accepted) > max_points => data = LastN(accepted, max_points)

\* C3: right after update_max_points the buffer holds at most the new
\* max_points samples, in every connection state.
C3_ShrinkTrimsAtOnce == last.op = "update_max_points" => Len(data) <= max_points

\* C4: in a tick while connected and running every numeric line read adds
\* one sample to the buffer (before the end-of-tick trim), one to the
\* counter and (writer active) one row to the CSV file, in arrival order; a
\* line with a non-numeric field adds nothing and the lines after it are
\* still processed.
C4_OneSamplePerNumericLine ==
    [][(last'.op = "update_plot" /\ Connected /\ is_running) =>
         LET new == ExpectedSamples(last'.read) IN
         /\ accepted' = accepted \o new
         /\ total_data_count' = total_data_count + Len(new)
         /\ csv_rows' = IF csv_writer # "None" THEN csv_rows \o new ELSE csv_rows
         /\ data' = IF last'.raised = ""
                    THEN LastN(data \o new, max_points)
                    ELSE data \o new
         /\ last'.raised = "" => Len(last'.read) = last'.waiting]_vars

C4_Witness ==
    /\ TickRan /\ last.raised = ""
    /\ last.read = << <<"1", ",", "x", "\n">>, <<"1", ",", "2", "\n">> >>
    /\ csv_writer # "None"
    /\ csv_rows # <<>>

\* C5 as claimed: the counter never decreases in a tick, connect, disconnect,
\* run/pause, max-points change, channel delete or rename.
ClaimedOps ==
    {"update_plot", "connect_serial", "disconnect_serial", "toggle_run_stop",
     "update_max_points", "delete_checkbox", "rename_checkbox"}

C5_NeverDecreases ==
    [][last'.op \in ClaimedOps => total_data_count' >= total_data_count]_vars

\* C5 as amended: the counter never decreases except in Clear, Restore
\* Default and a connect that opens the port (connect_serial calls
\* clear_plot); a tick adds one per accepted sample, no other step changes it.
C5_DecreasesOnlyOnClearOrOpen ==
    [][IF last'.op = "update_plot"
       THEN total_data_count' =
              total_data_count + Len(ExpectedSamples(last'.read))
       ELSE IF \/ last'.op \in {"clear_plot", "restore_default"}
               \/ (last'.op = "connect_serial" /\ serial' # "None")
       THEN total_data_count' = 0
       ELSE total_data_count' = total_data_count]_vars

C5_Witness ==
    /\ last.op = "connect_serial" /\ serial # "None"
    /\ last.found.data_len > 0 /\ total_data_count = 0

\* C6: clear_plot leaves the buffer empty and the counter at 0.
C6_ClearEmpties ==
    last.op = "clear_plot" => (data = <<>> /\ total_data_count = 0)

C6_Witness == last.op = "clear_plot" /\ last.found.data_len > 0

\* C7: a tick while disconnected or paused reads nothing and changes
\* nothing of the program's state.
C7_IdleTickIsNoOp ==
    [][(last'.op = "update_plot" /\ ~(Connected /\ is_running)) =>
         (last'.read = <<>> /\ UNCHANGED progvars /\ UNCHANGED accepted)]_vars

C7_Witness ==
    /\ TickRan /\ Connected /\ ~is_running
    /\ last.waiting > 0 /\ data # <<>>

\* C8: a connect makes at most retry_count port-open calls and none after
\* one that succeeded; when all of them failed an error is shown and the
\* program is disconnected: no handle, not running, run/stop disabled, no
\* CSV file.
C8_ConnectRetries ==
    last.op = "connect_serial" =>
        /\ Len(last.tried) \in 1..3
        /\ \A i \in 1..(Len(last.tried) - 1) : last.tried[i] # "ok"
        /\ (\A i \in 1..Len(last.tried) : last.tried[i] # "ok") =>
              /\ error_label # ""
              /\ serial = "None"
              /\ ~is_running
              /\ ~run_stop_enabled
              /\ csv_file = "None" /\ csv_writer = "None" /\ open_files = 0

C8_Witness ==
    /\ last.op = "connect_serial"
    /\ last.tried = <<"SerialException", "SerialException", "SerialException">>

\* C9: after disconnect_serial or closeEvent, also when closing the port
\* raised, the CSV handle is closed and released and the program is
\* disconnected and not running.
C9_DisconnectReleasesCsv ==
    last.op \in {"disconnect_serial", "closeEvent"} =>
        /\ csv_file = "None" /\ csv_writer = "None" /\ open_files = 0
        /\ serial = "None"
        /\ ~is_running

C9_Witness ==
    /\ last.op = "disconnect_serial"
    /\ last.raised = "close"
    /\ last.found.csv_file = "open"

\* C10: a tick that met an unexpected error leaves the program disconnected
\* with the CSV handle released.
C10_TickErrorDisconnects ==
    (TickRan /\ last.raised # "") =>
        (serial = "None" /\ csv_file = "None" /\ open_files = 0)

\* C11: a tick that read a line that does not decode drops that line only:
\* it raises nothing, reads every line that was waiting and ends with the
\* buffer trimmed to max_points.
C11_UndecodableLineDropped ==
    (TickRan /\ \E i \in 1..Len(last.read) : ~Decodable(last.read[i])) =>
        /\ last.raised = ""
        /\ Len(last.read) = last.waiting
        /\ Len(data) <= max_points

\* What the lines of ShapedLines are expected to yield, written down by
\* hand: a sample when every field is a finite number, padded or not, and
\* nothing otherwise.
WantedOf(line) ==
    IF line = <<"1", "\n">> THEN << <<Finite(1)>> >>
    ELSE IF line = <<" ", "1", " ", ",", " ", "2", "\r", "\n">>
         THEN << <<Finite(1), Finite(2)>> >>
    ELSE <<>>

RECURSIVE WantedSamples(_)
WantedSamples(ls) ==
    IF ls = <<>> THEN <<>> ELSE WantedOf(Head(ls)) \o WantedSamples(Tail(ls))

\* C12: in a tick while connected and running the lines whose fields are all
\* finite numbers (whitespace around a field allowed) each add one sample to
\* the accepted samples, the counter and the CSV file; a line with an empty,
\* non-numeric or non-finite field adds nothing.
C12_OnlyFiniteLinesAccepted ==
    [][(last'.op = "update_plot" /\ Connected /\ is_running) =>
         LET new == WantedSamples(last'.read) IN
         /\ accepted' = accepted \o new
         /\ total_data_count' = total_data_count + Len(new)
         /\ csv_rows' = IF csv_writer # "None" THEN csv_rows \o new
                        ELSE csv_rows]_vars

\* the callback that ran last redrew the series (update_plot_data ran)
Redrawn ==
    \/ last.op \in {"checkbox_clicked", "delete_checkbox", "rename_checkbox"}
    \/ (TickRan /\ last.raised = "" /\ ExpectedSamples(last.read) # <<>>)

\* buffered samples wide enough to have a value for channel i (from 1)
WidthCount(d, i) == Cardinality({k \in 1..Len(d) : Len(d[k]) >= i})

\* C13: the buffer never holds more samples than the counter counts, and
\* right after a redraw every visible channel i has x and y of the same
\* length n, the number of buffered samples wide enough for it, with x the
\* integers from total_data_count - n up to total_data_count - 1.
C13_XMatchesY ==
    /\ Len(data) <= total_data_count
    /\ Redrawn =>
         \A i \in 1..Len(lines) :
            (i <= Len(checkboxes) /\ checkboxes[i].checked) =>
               LET n == WidthCount(data, i) IN
               /\ Len(lines[i].y) = n
               /\ Len(lines[i].x) = n
               /\ \A j \in 1..n : lines[i].x[j] = total_data_count - n + j - 1

C13_Witness ==
    /\ TickRan /\ Redrawn
    /\ total_data_count > Len(data)
    /\ lines # <<>> /\ lines[1].y # <<>>

\* C14: after a tick that ran to its end, there is a series for every
\* position of every sample the tick accepted.
C14_SeriesForEveryWidth ==
    (TickRan /\ last.raised = "") =>
        \A k \in 1..Len(ExpectedSamples(last.read)) :
            Len(lines) >= Len(ExpectedSamples(last.read)[k])

\* C15: a tick that accepts a sample narrower than the number of series
\* and meets no port or decoding failure raises nothing and shows no
\* error, removes no series and no checkbox, and adds no point to a channel
\* beyond the sample's width: such a channel's series is left as it was or
\* holds at most one point per buffered sample wide enough for it.
C15_NarrowSampleIsHarmless ==
    [][\A k \in 1..Len(ExpectedSamples(last'.read)) :
         (/\ last'.op = "update_plot"
          /\ Len(ExpectedSamples(last'.read)[k]) < Len(lines)
          /\ last'.raised \notin {"read", "decode"}) =>
            /\ last'.raised = ""
            /\ error_label' = error_label
            /\ Len(lines') >= Len(lines)
            /\ Len(checkboxes') >= Len(checkboxes)
            /\ \A i \in (Len(ExpectedSamples(last'.read)[k]) + 1)..Len(lines') :
                  \/ lines'[i] = lines[i]
                  \/ Len(lines'[i].y) <= WidthCount(data', i)]_vars

C15_Witness ==
    /\ TickRan /\ last.raised = ""
    /\ last.read = << <<"1", "\n">> >>
    /\ Len(lines) = 2 /\ Len(data) = 2
    /\ Len(lines[1].y) = 2 /\ Len(lines[2].y) = 1

\* positions of the checkboxes of cbs that bear the name nm
PositionsOf(cbs, nm) == {j \in 1..Len(cbs) : cbs[j].text = nm}

\* C16: deleting a channel leaves every surviving channel at its position:
\* a name found at a position after the delete was at that position before.
C16_DeleteKeepsPositions ==
    [][last'.op = "delete_checkbox" =>
         \A j \in 1..Len(checkboxes') :
            j \in PositionsOf(checkboxes, checkboxes'[j].text)]_vars

\* C17: a checkbox that a tick appends at position i (from 1) of the
\* checkbox list is named "Data i".
C17_NewChannelNamedByPosition ==
    [][last'.op = "update_plot" =>
         \A i \in (Len(checkboxes) + 1)..Len(checkboxes') :
            checkboxes'[i].text = DataNames[i]]_vars

\* the names of the checkboxes, in order
NamesOf(cbs) == [i \in 1..Len(cbs) |-> cbs[i].text]

\* C18: clear_plot leaves the ordered list of channel names as it found it.
C18_ClearKeepsNames ==
    [][last'.op = "clear_plot" => NamesOf(checkboxes') = NamesOf(checkboxes)]_vars

\* C19: is_running holds only while a port is held open, and toggle_run_stop
\* changes nothing while there is no port.
C19_RunningImpliesConnected ==
    [][/\ is_running' => serial' # "None"
       /\ (last'.op = "toggle_run_stop" /\ serial = "None") =>
             (UNCHANGED progvars /\ ~is_running')]_vars

C19_Witness ==
    /\ last.op = "toggle_run_stop" /\ serial = "None"
    /\ error_label = "Error: port"

\* C20: a CSV handle is open only while a port is held open, the program
\* holds every handle that is open, and there is never more than one.
C20_OneCsvWhileConnected ==
    /\ csv_file # "None" => serial # "None"
    /\ csv_writer # "None" <=> csv_file # "None"
    /\ open_files = IF csv_file # "None" THEN 1 ELSE 0

C20_Witness ==
    /\ last.op = "connect_serial" /\ last.raised = ""
    /\ csv_file # "None" /\ csv_rows # <<>>

====
